---- MODULE Spec2Model ----
(***************************************************************************)
(* Synthetic incident generator (src/AI_model/generate_synthetic_incidents *)
(* .py): generate_dataset / _build_record and write_dataset.               *)
(*                                                                         *)
(* Time is counted in whole minutes since an epoch (every timedelta of the *)
(* program is a whole number of minutes).  Real numbers are fixed-point,   *)
(* in thousandths.  Probabilities and weights are in hundredths.           *)
(* random.Random is a deterministic generator: its stream is a function of *)
(* the seed.  It is modelled by a small congruential generator of          *)
(* RngModulus states, with the library calls (random, randint, choice,     *)
(* choices, uniform) computed from its output as the library computes      *)
(* them from its own.                                                      *)
(***************************************************************************)
EXTENDS Integers, Sequences, FiniteSets, TLC

VARIABLES
    seed,       \* generate_dataset's seed argument
    size,       \* generate_dataset's size argument
    index,      \* the list comprehension's position in range(size)
    rng,        \* the random.Random instance
    records,    \* the records built so far, in order
    now,        \* the host clock, as datetime.now(UTC) reads it
    started,    \* the clock when the current call of generate_dataset began
    draws,      \* per record: the labels of the calls made on rng, in order
    flags,      \* per record: the false_positive flag drawn for it
    callNo,     \* 1 for the first call of generate_dataset, 2 for a second
    first,      \* what the first call returned and how (once a second began)
    pc,         \* where main is: "generate", then write_dataset's steps
    dirExists,  \* whether output_path.parent exists
    file,       \* the target file: NoFile, or its content as chunks
    oldFile     \* the target file as it was before write_dataset ran

vars == <<seed, size, index, rng, records, now, started, draws, flags,
          callNo, first, pc, dirExists, file, oldFile>>

----------------------------------------------------------------------------
(* Bounds of the model *)

MaxSize == 5
MaxSeed == 1023
RngModulus == 1024
MaxTicks == 1
NowStart == 200000

----------------------------------------------------------------------------
(* Tables *)

CATEGORIES ==
    <<"Traffic", "Cybersecurity", "Public Safety", "Utilities", "Environmental">>

SEVERITIES == <<"low", "medium", "high", "critical">>
STATUSES == <<"open", "acknowledged", "resolved">>

LOCATIONS ==
    [c \in {CATEGORIES[i] : i \in 1..5} |->
        CASE c = "Traffic" ->
               <<"Central Station", "Ring Road East", "Airport Tunnel", "Harbour Bridge">>
          [] c = "Cybersecurity" ->
               <<"Datacenter West", "Civic Cloud Cluster", "Identity Gateway", "E-services API">>
          [] c = "Public Safety" ->
               <<"Museum Quarter", "City Plaza", "Riverfront", "Stadium District">>
          [] c = "Utilities" ->
               <<"Water Treatment Plant", "North Power Substation",
                 "Waste Processing Hub", "District Heating Loop">>
          [] c = "Environmental" ->
               <<"Canal District", "Urban Forest", "Industrial Park", "Riverside Wetlands">>]

SENSOR_IDS ==
    [c \in {CATEGORIES[i] : i \in 1..5} |->
        CASE c = "Traffic" -> <<"traffic-001", "traffic-014", "traffic-027", "traffic-042">>
          [] c = "Cybersecurity" -> <<"sec-201", "sec-237", "sec-448", "sec-509">>
          [] c = "Public Safety" -> <<"ps-118", "ps-204", "ps-317", "ps-466">>
          [] c = "Utilities" -> <<"util-031", "util-066", "util-082", "util-119">>
          [] c = "Environmental" -> <<"env-441", "env-552", "env-618", "env-733">>]

ROOT_CAUSES ==
    <<"Hardware fault", "Human error", "External attack", "Weather related",
      "Scheduled maintenance", "Supply disruption", "Sensor malfunction",
      "Network congestion">>

TITLES ==
    [c \in {CATEGORIES[i] : i \in 1..5} |->
        CASE c = "Traffic" -> "Traffic congestion alert"
          [] c = "Cybersecurity" -> "Unauthorized access attempt"
          [] c = "Public Safety" -> "Public safety anomaly"
          [] c = "Utilities" -> "Utilities infrastructure warning"
          [] c = "Environmental" -> "Environmental quality deviation"]

DESCRIPTIONS ==
    [c \in {CATEGORIES[i] : i \in 1..5} |->
        CASE c = "Traffic" -> "Generated from city mobility telemetry feed."
          [] c = "Cybersecurity" -> "Generated from perimeter security analytics."
          [] c = "Public Safety" -> "Generated from surveillance anomaly detection."
          [] c = "Utilities" -> "Generated from utilities SCADA monitoring."
          [] c = "Environmental" -> "Generated from distributed environmental sensors."]

IMPACTS ==
    [c \in {CATEGORIES[i] : i \in 1..5} |->
        CASE c = "Traffic" -> "Potential delays across connected routes."
          [] c = "Cybersecurity" -> "Possible disruption to digital citizen services."
          [] c = "Public Safety" -> "On-site response team recommended."
          [] c = "Utilities" -> "Utility delivery stability under review."
          [] c = "Environmental" -> "Environmental compliance threshold exceeded."]

\* weights in hundredths
SEVERITY_WEIGHTS ==
    [c \in {CATEGORIES[i] : i \in 1..5} |->
        CASE c = "Traffic" -> <<18, 39, 31, 12>>
          [] c = "Cybersecurity" -> <<10, 30, 37, 23>>
          [] c = "Public Safety" -> <<22, 33, 30, 15>>
          [] c = "Utilities" -> <<28, 38, 24, 10>>
          [] c = "Environmental" -> <<34, 40, 20, 6>>]

STATUS_WEIGHTS ==
    [s \in {SEVERITIES[i] : i \in 1..4} |->
        CASE s = "low" -> <<55, 25, 20>>
          [] s = "medium" -> <<33, 33, 34>>
          [] s = "high" -> <<22, 32, 46>>
          [] s = "critical" -> <<12, 28, 60>>]

\* probabilities in hundredths
FALSE_POSITIVE_PROBABILITY ==
    [s \in {SEVERITIES[i] : i \in 1..4} |->
        CASE s = "low" -> 26
          [] s = "medium" -> 14
          [] s = "high" -> 7
          [] s = "critical" -> 3]

\* integer fields as they are, real fields in thousandths
TRAFFIC_PAYLOAD_RANGES ==
    [s \in {SEVERITIES[i] : i \in 1..4} |->
        CASE s = "low" ->
               [vehicle_count |-> <<240, 720>>, avg_speed_kmh |-> <<26000, 38000>>]
          [] s = "medium" ->
               [vehicle_count |-> <<680, 1280>>, avg_speed_kmh |-> <<16000, 26000>>]
          [] s = "high" ->
               [vehicle_count |-> <<980, 1560>>, avg_speed_kmh |-> <<10000, 18000>>]
          [] s = "critical" ->
               [vehicle_count |-> <<1280, 1850>>, avg_speed_kmh |-> <<4000, 11000>>]]

CYBER_PAYLOAD_RANGES ==
    [s \in {SEVERITIES[i] : i \in 1..4} |->
        CASE s = "low" -> [failed_attempts |-> <<45, 140>>, unique_ips |-> <<4, 12>>]
          [] s = "medium" -> [failed_attempts |-> <<140, 360>>, unique_ips |-> <<8, 24>>]
          [] s = "high" -> [failed_attempts |-> <<360, 760>>, unique_ips |-> <<18, 44>>]
          [] s = "critical" -> [failed_attempts |-> <<720, 1200>>, unique_ips |-> <<32, 70>>]]

PUBLIC_SAFETY_ANOMALY_RANGE ==
    [s \in {SEVERITIES[i] : i \in 1..4} |->
        CASE s = "low" -> <<320, 500>>
          [] s = "medium" -> <<500, 700>>
          [] s = "high" -> <<700, 880>>
          [] s = "critical" -> <<850, 970>>]

UTILITIES_CHLORINE_RANGE ==
    [s \in {SEVERITIES[i] : i \in 1..4} |->
        CASE s = "low" -> <<800, 1300>>
          [] s = "medium" -> <<600, 1600>>
          [] s = "high" -> <<450, 1800>>
          [] s = "critical" -> <<300, 2000>>]

ENVIRONMENTAL_PM25_RANGE ==
    [s \in {SEVERITIES[i] : i \in 1..4} |->
        CASE s = "low" -> <<14000, 32000>>
          [] s = "medium" -> <<28000, 60000>>
          [] s = "high" -> <<54000, 96000>>
          [] s = "critical" -> <<90000, 150000>>]

RNG_SEED == 20241202

----------------------------------------------------------------------------
(* random.Random: the generator and the library calls the program makes.   *)
(* A generator value is its internal state x, the number n of calls made   *)
(* on it, and the labels of those calls (log), kept for the claims about   *)
(* the draw order.                                                         *)

None == <<>>
Some(v) == <<v>>

NextState(x) == (813 * x + 331) % RngModulus

\* random.Random(seed)
Random(s) == [x |-> s % RngModulus, n |-> 0, log |-> <<>>]

\* one call on the generator: the state advances, the call is counted
Advance(r, label) ==
    [x |-> NextState(r.x), n |-> r.n + 1, log |-> Append(r.log, label)]

\* rng.random(): v / RngModulus, in [0, 1)
rng_random(r, label) ==
    LET r2 == Advance(r, label) IN [v |-> r2.x, rng |-> r2]

\* rng.randint(a, b): a + randbelow(b - a + 1), both ends included
rng_randint(r, a, b, label) ==
    LET r2 == Advance(r, label)
    IN  [v |-> a + ((r2.x * (b - a + 1)) \div RngModulus), rng |-> r2]

\* rng.choice(seq): seq[randbelow(len(seq))]
rng_choice(r, seq, label) ==
    LET r2 == Advance(r, label)
    IN  [v |-> seq[1 + ((r2.x * Len(seq)) \div RngModulus)], rng |-> r2]

RECURSIVE CumWeight(_, _)
CumWeight(weights, j) == IF j = 0 THEN 0 ELSE weights[j] + CumWeight(weights, j - 1)

\* rng.choices(population, weights=weights, k=1)[0]:
\* population[bisect(cum_weights, random() * total, 0, n - 1)]
rng_choices(r, population, weights, label) ==
    LET r2 == Advance(r, label)
        n == Len(population)
        total == CumWeight(weights, n)
        at == Cardinality({j \in 1..(n - 1) :
                              CumWeight(weights, j) * RngModulus <= r2.x * total})
    IN  [v |-> population[at + 1], rng |-> r2]

\* rng.uniform(a, b): a + (b - a) * random(), in thousandths
rng_uniform(r, a, b, label) ==
    LET r2 == Advance(r, label)
    IN  [v |-> a + (((b - a) * r2.x) \div RngModulus), rng |-> r2]

\* round(v, ndigits) on thousandths: to the nearest multiple of step, ties to even
Round(v, step) ==
    LET q == v \div step
        rem == v % step
    IN  IF 2 * rem < step THEN q * step
        ELSE IF 2 * rem > step THEN (q + 1) * step
        ELSE IF q % 2 = 0 THEN q * step ELSE (q + 1) * step

\* datetime.isoformat(): the date and the time of day, as separate fields
isoformat(t) == [date |-> t \div 1440, time |-> t % 1440]

----------------------------------------------------------------------------
(* The record builders *)

_pick_severity(category, r) ==
    rng_choices(r, SEVERITIES, SEVERITY_WEIGHTS[category], "severity")

_pick_status(severity, r) ==
    rng_choices(r, STATUSES, STATUS_WEIGHTS[severity], "status")

WINDOW_DAYS == 90

\* mutant: the per-index shift of 3 minutes is left out
_detected_at_no_index(i, r, clock) ==
    LET d == rng_randint(r, 0, WINDOW_DAYS * 24 * 60, "detected_at")
    IN  [v |-> clock - d.v, rng |-> d.rng]

_detected_at(i, r, clock) ==
    LET d == rng_randint(r, 0, WINDOW_DAYS * 24 * 60, "detected_at")
    IN  [v |-> clock - (d.v + i * 3), rng |-> d.rng]

ack_bounds ==
    [s \in {SEVERITIES[i] : i \in 1..4} |->
        CASE s = "low" -> <<45, 360>>
          [] s = "medium" -> <<30, 180>>
          [] s = "high" -> <<10, 90>>
          [] s = "critical" -> <<3, 45>>]

res_bounds ==
    [s \in {SEVERITIES[i] : i \in 1..4} |->
        CASE s = "low" -> <<240, 1440>>
          [] s = "medium" -> <<180, 960>>
          [] s = "high" -> <<120, 720>>
          [] s = "critical" -> <<60, 480>>]

\* mutant: both offsets are drawn before the status is looked at
_acknowledged_and_resolved_draws_both(status, severity, detected_at, r) ==
    IF status = "open"
    THEN [ack |-> None, res |-> None, rng |-> r]
    ELSE LET a == rng_randint(r, ack_bounds[severity][1], ack_bounds[severity][2],
                              "acknowledged_at")
             d == rng_randint(a.rng, res_bounds[severity][1],
                              res_bounds[severity][2], "resolved_at")
             acknowledged == detected_at + a.v
             resolved == acknowledged + d.v
         IN  IF status = "acknowledged"
             THEN [ack |-> Some(isoformat(acknowledged)), res |-> None, rng |-> d.rng]
             ELSE [ack |-> Some(isoformat(acknowledged)),
                   res |-> Some(isoformat(resolved)), rng |-> d.rng]

_acknowledged_and_resolved(status, severity, detected_at, r) ==
    IF status = "open"
    THEN [ack |-> None, res |-> None, rng |-> r]
    ELSE LET a == rng_randint(r, ack_bounds[severity][1], ack_bounds[severity][2],
                              "acknowledged_at")
             acknowledged == detected_at + a.v
         IN  IF status = "acknowledged"
             THEN [ack |-> Some(isoformat(acknowledged)), res |-> None, rng |-> a.rng]
             ELSE LET d == rng_randint(a.rng, res_bounds[severity][1],
                                       res_bounds[severity][2], "resolved_at")
                      resolved == acknowledged + d.v
                  IN  [ack |-> Some(isoformat(acknowledged)),
                       res |-> Some(isoformat(resolved)), rng |-> d.rng]

\* mutant: a root cause is drawn for false positives too
_root_cause_always(severity, false_positive, r) ==
    LET c == rng_choice(r, ROOT_CAUSES, "root_cause")
    IN  [v |-> Some(c.v), rng |-> c.rng]

_root_cause(severity, false_positive, r) ==
    IF false_positive
    THEN [v |-> None, rng |-> r]
    ELSE LET c == rng_choice(r, ROOT_CAUSES, "root_cause")
         IN  [v |-> Some(c.v), rng |-> c.rng]

_choose_location(category, r) == rng_choice(r, LOCATIONS[category], "location")

_choose_title(category) == TITLES[category]

_choose_description(category) == DESCRIPTIONS[category]

_choose_impact(category, severity) ==
    IF severity \in {"high", "critical"}
    THEN <<IMPACTS[category], "Escalation priority elevated.">>
    ELSE <<IMPACTS[category]>>

_sensor_status(severity, false_positive, r) ==
    IF false_positive
    THEN rng_choices(r, <<"healthy", "warning">>, <<70, 30>>, "sensor_status")
    ELSE IF severity = "critical"
    THEN rng_choices(r, <<"alert", "warning">>, <<80, 20>>, "sensor_status")
    ELSE IF severity = "high"
    THEN rng_choices(r, <<"alert", "warning", "healthy">>, <<50, 35, 15>>, "sensor_status")
    ELSE IF severity = "medium"
    THEN rng_choices(r, <<"warning", "healthy", "alert">>, <<55, 35, 10>>, "sensor_status")
    ELSE rng_choices(r, <<"healthy", "warning">>, <<75, 25>>, "sensor_status")

_traffic_payload(severity, r) ==
    LET bounds == TRAFFIC_PAYLOAD_RANGES[severity]
        vc == rng_randint(r, bounds.vehicle_count[1], bounds.vehicle_count[2],
                          "vehicle_count")
        sp == rng_uniform(vc.rng, bounds.avg_speed_kmh[1], bounds.avg_speed_kmh[2],
                          "avg_speed_kmh")
    IN  [v |-> [vehicle_count |-> vc.v, avg_speed_kmh |-> Round(sp.v, 100)],
         rng |-> sp.rng]

_cyber_payload(severity, r) ==
    LET bounds == CYBER_PAYLOAD_RANGES[severity]
        fa == rng_randint(r, bounds.failed_attempts[1], bounds.failed_attempts[2],
                          "failed_attempts")
        ips == rng_randint(fa.rng, bounds.unique_ips[1], bounds.unique_ips[2],
                           "unique_ips")
    IN  [v |-> [failed_attempts |-> fa.v, unique_ips |-> ips.v], rng |-> ips.rng]

\* mutant: the anomaly score is rounded to one decimal instead of two
_public_safety_payload_one_decimal(severity, r) ==
    LET an == rng_uniform(r, PUBLIC_SAFETY_ANOMALY_RANGE[severity][1],
                          PUBLIC_SAFETY_ANOMALY_RANGE[severity][2], "anomaly_score")
    IN  [v |-> [anomaly_score |-> Round(an.v, 100)], rng |-> an.rng]

_public_safety_payload(severity, r) ==
    LET an == rng_uniform(r, PUBLIC_SAFETY_ANOMALY_RANGE[severity][1],
                          PUBLIC_SAFETY_ANOMALY_RANGE[severity][2], "anomaly_score")
    IN  [v |-> [anomaly_score |-> Round(an.v, 10)], rng |-> an.rng]

_utilities_payload(severity, r) ==
    LET cl == rng_uniform(r, UTILITIES_CHLORINE_RANGE[severity][1],
                          UTILITIES_CHLORINE_RANGE[severity][2], "chlorine_ppm")
        ph == rng_uniform(cl.rng, 6500, 8300, "ph")
    IN  [v |-> [chlorine_ppm |-> Round(cl.v, 10), ph |-> Round(ph.v, 10)],
         rng |-> ph.rng]

_environmental_payload(severity, r) ==
    LET pm == rng_uniform(r, ENVIRONMENTAL_PM25_RANGE[severity][1],
                          ENVIRONMENTAL_PM25_RANGE[severity][2], "pm2_5")
    IN  [v |-> [pm2_5 |-> Round(pm.v, 100)], rng |-> pm.rng]

_sensor_payload(category, severity, r) ==
    IF category = "Traffic" THEN _traffic_payload(severity, r)
    ELSE IF category = "Cybersecurity" THEN _cyber_payload(severity, r)
    ELSE IF category = "Public Safety" THEN _public_safety_payload(severity, r)
    ELSE IF category = "Utilities" THEN _utilities_payload(severity, r)
    ELSE _environmental_payload(severity, r)

\* mutant: the capture offset may be 0 minutes
_sensor_measurement_from_zero(category, severity, detected_at, false_positive, r) ==
    LET sid == rng_choice(r, SENSOR_IDS[category], "sensor_id")
        st == _sensor_status(severity, false_positive, sid.rng)
        cap == rng_randint(st.rng, 0, 12, "captured_at")
        captured_at == detected_at - cap.v
        pl == _sensor_payload(category, severity, cap.rng)
    IN  [v |-> [sensor_id |-> sid.v,
                type |-> category,
                status |-> st.v,
                captured_at |-> isoformat(captured_at),
                payload |-> pl.v],
         rng |-> pl.rng]

_sensor_measurement(category, severity, detected_at, false_positive, r) ==
    LET sid == rng_choice(r, SENSOR_IDS[category], "sensor_id")
        st == _sensor_status(severity, false_positive, sid.rng)
        cap == rng_randint(st.rng, 1, 12, "captured_at")
        captured_at == detected_at - cap.v
        pl == _sensor_payload(category, severity, cap.rng)
    IN  [v |-> [sensor_id |-> sid.v,
                type |-> category,
                status |-> st.v,
                captured_at |-> isoformat(captured_at),
                payload |-> pl.v],
         rng |-> pl.rng]

\* mutant: ids start at 1001
record_id_from_one(i) == 1001 + i

\* id=1000 + index
record_id(i) == 1000 + i

\* mutant: the root cause is drawn before the location
_build_record_root_cause_first(i, r, clock) ==
    LET cat == rng_choice(r, CATEGORIES, "category")
        sev == _pick_severity(cat.v, cat.rng)
        st == _pick_status(sev.v, sev.rng)
        det == _detected_at(i, st.rng, clock)
        fpd == rng_random(det.rng, "false_positive")
        false_positive == fpd.v * 100 < FALSE_POSITIVE_PROBABILITY[sev.v] * RngModulus
        ar == _acknowledged_and_resolved(st.v, sev.v, det.v, fpd.rng)
        rc == _root_cause(sev.v, false_positive, ar.rng)
        loc == _choose_location(cat.v, rc.rng)
        sm == _sensor_measurement(cat.v, sev.v, det.v, false_positive, loc.rng)
    IN  [rec |-> [id |-> record_id(i),
                  title |-> _choose_title(cat.v),
                  category |-> cat.v,
                  severity |-> sev.v,
                  status |-> st.v,
                  detected_at |-> isoformat(det.v),
                  acknowledged_at |-> ar.ack,
                  resolved_at |-> ar.res,
                  location |-> loc.v,
                  description |-> _choose_description(cat.v),
                  impact |-> _choose_impact(cat.v, sev.v),
                  root_cause |-> rc.v,
                  sensor_measurement |-> sm.v],
         rng |-> sm.rng,
         false_positive |-> false_positive]

\* _build_record: the record, the generator after it, and the flag it drew
_build_record(i, r, clock) ==
    LET cat == rng_choice(r, CATEGORIES, "category")
        sev == _pick_severity(cat.v, cat.rng)
        st == _pick_status(sev.v, sev.rng)
        det == _detected_at(i, st.rng, clock)
        fpd == rng_random(det.rng, "false_positive")
        false_positive == fpd.v * 100 < FALSE_POSITIVE_PROBABILITY[sev.v] * RngModulus
        ar == _acknowledged_and_resolved(st.v, sev.v, det.v, fpd.rng)
        loc == _choose_location(cat.v, ar.rng)
        rc == _root_cause(sev.v, false_positive, loc.rng)
        sm == _sensor_measurement(cat.v, sev.v, det.v, false_positive, rc.rng)
    IN  [rec |-> [id |-> record_id(i),
                  title |-> _choose_title(cat.v),
                  category |-> cat.v,
                  severity |-> sev.v,
                  status |-> st.v,
                  detected_at |-> isoformat(det.v),
                  acknowledged_at |-> ar.ack,
                  resolved_at |-> ar.res,
                  location |-> loc.v,
                  description |-> _choose_description(cat.v),
                  impact |-> _choose_impact(cat.v, sev.v),
                  root_cause |-> rc.v,
                  sensor_measurement |-> sm.v],
         rng |-> sm.rng,
         false_positive |-> false_positive]

\* IncidentRecord.to_dict
to_dict(rec) ==
    [id |-> rec.id, title |-> rec.title, category |-> rec.category,
     severity |-> rec.severity, status |-> rec.status,
     detected_at |-> rec.detected_at, acknowledged_at |-> rec.acknowledged_at,
     resolved_at |-> rec.resolved_at, location |-> rec.location,
     description |-> rec.description, impact |-> rec.impact,
     root_cause |-> rec.root_cause, sensor_measurement |-> rec.sensor_measurement]

----------------------------------------------------------------------------
(* The target file and the document json.dump writes to it *)

NoFile == [exists |-> FALSE, chunks |-> <<>>]
PreviousFile == [exists |-> TRUE, chunks |-> <<"previous document">>]

\* the bytes of a file; a file that does not exist holds none
Content(f) == IF f.exists THEN f.chunks ELSE <<>>

\* json.dump(serialised, handle, indent=2): the chunks it writes, in order
Document(recs) ==
    IF Len(recs) = 0
    THEN <<"[]">>
    ELSE <<"[">> \o [i \in 1..Len(recs) |-> to_dict(recs[i])] \o <<"]">>

----------------------------------------------------------------------------
(* State machine *)

Seeds == (0..MaxSeed) \cup {RNG_SEED}

NoCall == [size |-> 0, records |-> <<>>, draws |-> <<>>, done |-> FALSE]

InitCall ==
    /\ seed \in Seeds
    /\ size \in 0..MaxSize
    /\ index = 0
    /\ rng = Random(seed)
    /\ records = <<>>
    /\ now = NowStart
    /\ started = NowStart
    /\ draws = <<>>
    /\ flags = <<>>
    /\ callNo = 1
    /\ first = NoCall
    /\ pc = "generate"

\* generate_dataset(size, seed), called on its own: no file is touched
Init ==
    /\ InitCall
    /\ dirExists = FALSE
    /\ file = NoFile
    /\ oldFile = NoFile

\* the host clock advances between two reads of it
Tick ==
    /\ pc = "generate"
    /\ index < size
    /\ now < NowStart + MaxTicks
    /\ now' = now + 1
    /\ UNCHANGED <<seed, size, index, rng, records, started, draws, flags,
                   callNo, first, pc, dirExists, file, oldFile>>

\* one element of generate_dataset's list comprehension
BuildRecord ==
    /\ pc = "generate"
    /\ index < size
    /\ \E b \in {_build_record(index, rng, now)} :
           /\ records' = Append(records, b.rec)
           /\ rng' = b.rng
           /\ draws' = Append(draws, SubSeq(b.rng.log, rng.n + 1, b.rng.n))
           /\ flags' = Append(flags, b.false_positive)
    /\ index' = index + 1
    /\ UNCHANGED <<seed, size, now, started, callNo, first, pc, dirExists,
                   file, oldFile>>

\* generate_dataset returns; write_dataset begins
Return ==
    /\ pc = "generate"
    /\ index = size
    /\ pc' = "mkdir"
    /\ UNCHANGED <<seed, size, index, rng, records, now, started, draws, flags,
                   callNo, first, dirExists, file, oldFile>>

\* output_path.parent.mkdir(parents=True, exist_ok=True)
Mkdir ==
    /\ pc = "mkdir"
    /\ dirExists' = TRUE
    /\ pc' = "open"
    /\ UNCHANGED <<seed, size, index, rng, records, now, started, draws, flags,
                   callNo, first, file, oldFile>>

\* output_path.open("w"): creates the file, or truncates the one there
Open ==
    /\ pc = "open"
    /\ file' = [exists |-> TRUE, chunks |-> <<>>]
    /\ pc' = "dump"
    /\ UNCHANGED <<seed, size, index, rng, records, now, started, draws, flags,
                   callNo, first, dirExists, oldFile>>

\* json.dump writes its next chunk to the handle
Dump ==
    /\ pc = "dump"
    /\ Len(file.chunks) < Len(Document(records))
    /\ file' = [file EXCEPT !.chunks = Append(@, Document(records)[Len(@) + 1])]
    /\ UNCHANGED <<seed, size, index, rng, records, now, started, draws, flags,
                   callNo, first, pc, dirExists, oldFile>>

\* the with block closes the handle after the last chunk
Close ==
    /\ pc = "dump"
    /\ Len(file.chunks) = Len(Document(records))
    /\ pc' = "done"
    /\ UNCHANGED <<seed, size, index, rng, records, now, started, draws, flags,
                   callNo, first, dirExists, file, oldFile>>

\* a host-level failure (permission error, disk write failure) in mkdir, in
\* open or in a write of json.dump: the exception propagates, the run aborts
HostFailure ==
    /\ \/ pc \in {"mkdir", "open"}
       \/ pc = "dump" /\ Len(file.chunks) < Len(Document(records))
    /\ pc' = "failed"
    /\ UNCHANGED <<seed, size, index, rng, records, now, started, draws, flags,
                   callNo, first, dirExists, file, oldFile>>

Next == Tick \/ BuildRecord

Spec == Init /\ [][Next]_vars

\* main(): generate_dataset() with the default seed, then write_dataset to a
\* path whose directory and file may or may not exist yet.  The default size,
\* DATASET_SIZE = 1500, is replaced by the sizes up to MaxSize.
InitMain ==
    /\ InitCall
    /\ seed = RNG_SEED
    /\ dirExists \in BOOLEAN
    /\ file \in (IF dirExists THEN {NoFile, PreviousFile} ELSE {NoFile})
    /\ oldFile = file

NextMain ==
    Tick \/ BuildRecord \/ Return \/ Mkdir \/ Open \/ Dump \/ Close \/ HostFailure

SpecMain == InitMain /\ [][NextMain]_vars

\* two calls of generate_dataset with the same seed, one after the other
InitTwoCalls == Init

\* the first call has returned; generate_dataset is called again, same seed
CallAgain ==
    /\ pc = "generate"
    /\ index = size
    /\ callNo = 1
    /\ first' = [size |-> size, records |-> records, draws |-> draws, done |-> TRUE]
    /\ callNo' = 2
    /\ size' \in 0..MaxSize
    /\ index' = 0
    /\ rng' = Random(seed)
    /\ records' = <<>>
    /\ draws' = <<>>
    /\ flags' = <<>>
    /\ started' = now
    /\ UNCHANGED <<seed, now, pc, dirExists, file, oldFile>>

NextTwoCalls == Tick \/ BuildRecord \/ CallAgain

SpecTwoCalls == InitTwoCalls /\ [][NextTwoCalls]_vars

----------------------------------------------------------------------------
(* Reading the records *)

\* the instant an isoformat value denotes, in minutes
Minutes(iso) == iso.date * 1440 + iso.time

Present(opt) == opt # None

Min(a, b) == IF a < b THEN a ELSE b

Done == pc = "generate" /\ index = size

RECURSIVE SumLen(_, _)
SumLen(seqs, k) == IF k = 0 THEN 0 ELSE Len(seqs[k]) + SumLen(seqs, k - 1)

\* the fields each category's payload holds
PayloadFields(category) ==
    CASE category = "Traffic" -> {"vehicle_count", "avg_speed_kmh"}
      [] category = "Cybersecurity" -> {"failed_attempts", "unique_ips"}
      [] category = "Public Safety" -> {"anomaly_score"}
      [] category = "Utilities" -> {"chlorine_ppm", "ph"}
      [] category = "Environmental" -> {"pm2_5"}

\* the closed bounds registered for a payload field of (category, severity)
FieldBounds(category, severity, f) ==
    CASE category = "Traffic" /\ f = "vehicle_count" ->
           TRAFFIC_PAYLOAD_RANGES[severity].vehicle_count
      [] category = "Traffic" /\ f = "avg_speed_kmh" ->
           TRAFFIC_PAYLOAD_RANGES[severity].avg_speed_kmh
      [] category = "Cybersecurity" /\ f = "failed_attempts" ->
           CYBER_PAYLOAD_RANGES[severity].failed_attempts
      [] category = "Cybersecurity" /\ f = "unique_ips" ->
           CYBER_PAYLOAD_RANGES[severity].unique_ips
      [] category = "Public Safety" /\ f = "anomaly_score" ->
           PUBLIC_SAFETY_ANOMALY_RANGE[severity]
      [] category = "Utilities" /\ f = "chlorine_ppm" ->
           UTILITIES_CHLORINE_RANGE[severity]
      [] category = "Utilities" /\ f = "ph" -> <<6500, 8300>>
      [] category = "Environmental" /\ f = "pm2_5" ->
           ENVIRONMENTAL_PM25_RANGE[severity]

----------------------------------------------------------------------------
(* Claims *)

\* C1: two calls generate_dataset(size, seed) with the same size and seed
\* return identical record sequences, whenever each call runs.
C1_SameInputsSameRecords ==
    (callNo = 2 /\ first.done /\ Done /\ size = first.size)
        => records = first.records

\* Apart from the clock the model of generate_dataset is a function of
\* (size, seed): when the clock did not move, the second call repeats the first.
SameClockSameRecords ==
    (callNo = 2 /\ first.done /\ Done /\ size = first.size /\ now = NowStart)
        => records = first.records

\* C2: with the same seed, the records at the indices both calls have built
\* are identical, whatever the two sizes, and each record starts at the same
\* generator position in both calls.
C2_PrefixStable ==
    (callNo = 2 /\ first.done)
        => \A k \in 1..Min(Len(records), Len(first.records)) :
              /\ records[k] = first.records[k]
              /\ SumLen(draws, k - 1) = SumLen(first.draws, k - 1)

\* C3: in every record captured_at < detected_at, detected_at <= acknowledged_at
\* when acknowledged_at is present, acknowledged_at <= resolved_at when
\* resolved_at is present.
C3_TemporalOrdering ==
    \A i \in 1..Len(records) :
        LET r == records[i]
        IN  /\ Minutes(r.sensor_measurement.captured_at) < Minutes(r.detected_at)
            /\ Present(r.acknowledged_at)
                  => Minutes(r.detected_at) <= Minutes(r.acknowledged_at[1])
            /\ Present(r.resolved_at)
                  => /\ Present(r.acknowledged_at)
                     /\ Minutes(r.acknowledged_at[1]) <= Minutes(r.resolved_at[1])

\* a resolved record of critical severity (the smallest offsets) was built
C3_Witness ==
    \E i \in 1..Len(records) :
        /\ records[i].status = "resolved"
        /\ records[i].severity = "critical"
        /\ Present(records[i].resolved_at)

\* C4: acknowledged_at is present iff status is acknowledged or resolved,
\* resolved_at is present iff status is resolved, root_cause is absent iff the
\* record's false-positive flag was drawn true.
C4_OptionalFields ==
    \A i \in 1..Len(records) :
        LET r == records[i]
        IN  /\ Present(r.acknowledged_at) <=> r.status \in {"acknowledged", "resolved"}
            /\ Present(r.resolved_at) <=> r.status = "resolved"
            /\ (~Present(r.root_cause)) <=> flags[i]

\* a false positive that was acknowledged and not resolved, and a record with
\* a root cause, in one dataset
C4_Witness ==
    /\ \E i \in 1..Len(records) :
          /\ flags[i]
          /\ records[i].status = "acknowledged"
          /\ ~Present(records[i].root_cause)
    /\ \E i \in 1..Len(records) :
          /\ ~flags[i]
          /\ records[i].status = "open"

\* C5: generate_dataset(size, seed) returns exactly size records, the record
\* at position i (from 0) has id 1000 + i, ids are pairwise distinct and rise
\* by one; size 0 gives the empty sequence.
C5_CountAndIds ==
    /\ Len(records) = index
    /\ Done => Len(records) = size
    /\ \A i \in 1..Len(records) : records[i].id = 1000 + (i - 1)
    /\ \A i, j \in 1..Len(records) : i # j => records[i].id # records[j].id
    /\ \A i \in 1..(Len(records) - 1) : records[i + 1].id = records[i].id + 1

\* generate_dataset(5, 20241202) has returned ids 1000..1004
C5_Witness ==
    /\ seed = RNG_SEED
    /\ size = 5
    /\ Done
    /\ [i \in 1..Len(records) |-> records[i].id] = <<1000, 1001, 1002, 1003, 1004>>

\* C6: after a host-level failure in write_dataset the target file holds
\* either what it held before or the complete document, never a truncated
\* file or a prefix of the document.
C6_NoPartialWrite ==
    pc = "failed"
        => \/ Content(file) = Content(oldFile)
           \/ Content(file) = Document(records)

\* C7: the payload of every record holds exactly the fields of the record's
\* category, each within the closed bounds registered for (category,
\* severity), after rounding.
C7_RangeConformance ==
    \A i \in 1..Len(records) :
        LET r == records[i]
            payload == r.sensor_measurement.payload
        IN  /\ DOMAIN payload = PayloadFields(r.category)
            /\ \A f \in DOMAIN payload :
                  /\ FieldBounds(r.category, r.severity, f)[1] <= payload[f]
                  /\ payload[f] <= FieldBounds(r.category, r.severity, f)[2]

\* a real-valued field of some record was rounded onto its upper bound
C7_Witness ==
    \E i \in 1..Len(records) :
        LET r == records[i]
            payload == r.sensor_measurement.payload
        IN  \E f \in DOMAIN payload \ {"vehicle_count", "failed_attempts", "unique_ips"} :
               payload[f] = FieldBounds(r.category, r.severity, f)[2]

\* the labels of the draws of one record, as the specification lists them:
\* root cause before location, payload right after the sensor's health status
PayloadDraws(category) ==
    CASE category = "Traffic" -> <<"vehicle_count", "avg_speed_kmh">>
      [] category = "Cybersecurity" -> <<"failed_attempts", "unique_ips">>
      [] category = "Public Safety" -> <<"anomaly_score">>
      [] category = "Utilities" -> <<"chlorine_ppm", "ph">>
      [] category = "Environmental" -> <<"pm2_5">>

TimestampDraws(status) ==
    CASE status = "open" -> <<>>
      [] status = "acknowledged" -> <<"acknowledged_at">>
      [] status = "resolved" -> <<"acknowledged_at", "resolved_at">>

RootCauseDraw(false_positive) == IF false_positive THEN <<>> ELSE <<"root_cause">>

SpecifiedDraws(r, false_positive) ==
    <<"category", "severity", "status", "detected_at", "false_positive">>
        \o TimestampDraws(r.status)
        \o RootCauseDraw(false_positive)
        \o <<"location", "sensor_id", "sensor_status">>
        \o PayloadDraws(r.category)

\* the order the constructor call of _build_record evaluates its arguments in
EvaluatedDraws(r, false_positive) ==
    <<"category", "severity", "status", "detected_at", "false_positive">>
        \o TimestampDraws(r.status)
        \o <<"location">>
        \o RootCauseDraw(false_positive)
        \o <<"sensor_id", "sensor_status", "captured_at">>
        \o PayloadDraws(r.category)

\* C8 as stated: each record's draws are category, severity, status,
\* detection offset, false-positive flag, acknowledgment and resolution
\* offsets, root cause, location, sensor id, sensor health status, payload
\* fields, with nothing between health status and payload.
C8_SpecifiedOrder ==
    \A i \in 1..Len(records) : draws[i] = SpecifiedDraws(records[i], flags[i])

\* C8, amended: location is drawn before root cause, and the captured_at
\* offset is drawn between the sensor's health status and the payload fields.
C8_EvaluatedOrder ==
    \A i \in 1..Len(records) : draws[i] = EvaluatedDraws(records[i], flags[i])

\* a resolved record with a root cause: every optional draw was made
C8_Witness ==
    \E i \in 1..Len(records) :
        /\ records[i].status = "resolved"
        /\ ~flags[i]
        /\ Len(draws[i]) = 14

\* C9 as stated: detected_at is strictly decreasing along the sequence.
C9_StrictlyDecreasing ==
    \A i, j \in 1..Len(records) :
        i < j => Minutes(records[j].detected_at) < Minutes(records[i].detected_at)

\* C9, amended: the detected_at of the record at index i lies in the 90-day
\* window behind the clock, moved back by 3 * i minutes: no later than the
\* clock minus 3 * i minutes, no earlier than the clock at the start of the
\* call minus (129600 + 3 * i) minutes.
C9_WindowBehindClock ==
    \A i \in 1..Len(records) :
        LET d == Minutes(records[i].detected_at)
        IN  /\ d <= now - 3 * (i - 1)
            /\ d >= started - (WINDOW_DAYS * 24 * 60 + 3 * (i - 1))

\* a later record was detected after an earlier one, and the clock advanced
\* during the call
C9_Witness ==
    /\ now > started
    /\ \E i, j \in 1..Len(records) :
          /\ i < j
          /\ Minutes(records[j].detected_at) > Minutes(records[i].detected_at)

\* the number of calls _build_record makes for a record
DrawCount(r, false_positive) ==
    9 + Len(TimestampDraws(r.status)) + Len(RootCauseDraw(false_positive))
      + Cardinality(PayloadFields(r.category))

RECURSIVE SumDrawCount(_)
SumDrawCount(k) ==
    IF k = 0 THEN 0 ELSE DrawCount(records[k], flags[k]) + SumDrawCount(k - 1)

\* C10 as stated: every record consumes the same number of draws, whatever
\* its category, status and false-positive flag, and record i starts at
\* generator position i times that number.
C10_SameDrawCount ==
    /\ \A i, j \in 1..Len(draws) : Len(draws[i]) = Len(draws[j])
    /\ Len(draws) > 0 => rng.n = Len(draws) * Len(draws[1])

\* C10, amended: a record consumes 9 draws, plus one per timestamp its status
\* warrants (0, 1 or 2), plus one for the root cause unless it is a false
\* positive, plus one per payload field of its category (1 or 2): between 10
\* and 14; the generator position where the next record starts is the sum of
\* the counts of the records before it.
C10_DrawCountByShape ==
    /\ \A i \in 1..Len(records) :
          /\ Len(draws[i]) = DrawCount(records[i], flags[i])
          /\ 10 <= Len(draws[i])
          /\ Len(draws[i]) <= 14
    /\ rng.n = SumDrawCount(Len(records))
    /\ rng.n = SumLen(draws, Len(draws))

\* two records of one dataset consumed different numbers of draws
C10_Witness ==
    \E i, j \in 1..Len(draws) :
        /\ Len(draws[i]) = 10
        /\ Len(draws[j]) = 14

====
